---- MODULE Spec2Model ----
(***************************************************************************)
(* A model of PyPortOpt/Optimizers/optimizers.py: the difference-matrix    *)
(* builder Dmat, the covariance conditioner SymPDcovmatrix, the two        *)
(* quadratic-program optimizers minimumVariancePortfolio and               *)
(* meanVariancePortfolioReturnsTarget, and rollingwindow_backtest.         *)
(*                                                                         *)
(* Numbers.  In a problem of d assets, weights, allocation caps, longShort *)
(* and the bounds l, u of the QP are rationals held as integers in units   *)
(* of 1/(2d): 1 is One(d) = 2d and the equal weight 1/d is 2.  The         *)
(* coefficients of the constraint matrix A are plain integers.  Mean       *)
(* returns and per-period targets are held in units of 0.001 percent.      *)
(* Python indices start at 0, the sequences here at 1.                     *)
(***************************************************************************)
EXTENDS Integers, Sequences, FiniteSets, TLC

VARIABLES
    \* ---- Dmat(n, k) ----
    dm,
    \* ---- SymPDcovmatrix(A, tol) ----
    cv,
    \* ---- minimumVariancePortfolio / meanVariancePortfolioReturnsTarget ----
    opt,
    \* ---- rollingwindow_backtest ----
    bt

vars == <<dm, cv, opt, bt>>

(***************************************************************************)
(* Bounds of the model.                                                    *)
(***************************************************************************)
\* largest n handed to Dmat
MaxDn == 10
\* largest number of assets handed to an optimizer
MaxD == 3
\* largest number of rows or columns of a matrix handed to SymPDcovmatrix
MaxDim == 3
\* largest number of log-return periods of a backtest
MaxN == 4

(***************************************************************************)
(* Vectors and matrices (numpy arrays) as sequences.                       *)
(***************************************************************************)
Abs(x) == IF x < 0 THEN -x ELSE x

Min2(a, b) == IF a <= b THEN a ELSE b

Max2(a, b) == IF a >= b THEN a ELSE b

RECURSIVE SumSeq(_)
SumSeq(s) == IF s = <<>> THEN 0 ELSE Head(s) + SumSeq(Tail(s))

Dot(a, b) == SumSeq([i \in 1..Len(a) |-> a[i] * b[i]])

\* np.ones(d) * c, np.zeros(d)
Const(d, c) == [i \in 1..d |-> c]

\* np.eye(r, c)
Eye(r, c) == [i \in 1..r |-> [j \in 1..c |-> IF i = j THEN 1 ELSE 0]]

\* np.zeros((r, c))
Zeros(r, c) == [i \in 1..r |-> [j \in 1..c |-> 0]]

\* -1 * M
Neg(M) == [i \in 1..Len(M) |-> [j \in 1..Len(M[i]) |-> -M[i][j]]]

\* A negation that leaves the sign as it is.
NegVecNoSign(v) == v

\* -meanVec
NegVec(v) == [i \in 1..Len(v) |-> -v[i]]

\* np.hstack of two matrices with the same number of rows
HStackM(M1, M2) == [i \in 1..Len(M1) |-> M1[i] \o M2[i]]

NRows(M) == Len(M)

NCols(M) == IF Len(M) = 0 THEN 0 ELSE Len(M[1])

\* np.dot(M1, M2) of an (r x m) and an (m x c) matrix
MatMul(M1, M2) ==
    [i \in 1..NRows(M1) |->
        [j \in 1..NCols(M2) |->
            SumSeq([t \in 1..NCols(M1) |-> M1[i][t] * M2[t][j]])]]

\* np.vstack of two matrices, np.hstack of two vectors
VStack(M1, M2) == M1 \o M2

\* the number 1 in the weight unit 1/(2d) of a d-asset problem
One(d) == 2 * d

(***************************************************************************)
(* Dmat(n, k)                                                              *)
(***************************************************************************)
\* A first-difference builder with the sign of the off-diagonal lost.
FirstDifferenceNoSign(n) ==
    [i \in 1..(n - 1) |-> [j \in 1..n |-> IF j = i \/ j = i + 1 THEN 1 ELSE 0]]

\* the k = 1 branch: D = np.eye(n - 1, n); D[i, i + 1] = -1 for every row i
FirstDifference(n) ==
    [i \in 1..(n - 1) |->
        [j \in 1..n |-> IF j = i + 1 THEN -1 ELSE Eye(n - 1, n)[i][j]]]

\* the k > 1 branch's loop, from iteration i on: Dn = Dmat(n - i - 1, 1); D = Dn . D
RECURSIVE DmatLoop(_, _, _, _)
DmatLoop(n, k, i, D) ==
    IF i >= k - 1 THEN D
    ELSE DmatLoop(n, k, i + 1, MatMul(FirstDifference(n - i - 1), D))

Dmat(n, k) ==
    IF k = 0 THEN Eye(n, n)
    ELSE IF k = 1 THEN FirstDifference(n)
    ELSE DmatLoop(n, k, 0, FirstDifference(n))

NoCall == [pc |-> "none"]

DmatInit ==
    /\ \E n \in 2..MaxDn : \E k \in 0..(n - 1) :
          dm = [pc |-> "call", n |-> n, k |-> k, D |-> <<>>]
    /\ cv = NoCall
    /\ opt = NoCall
    /\ bt = NoCall

DmatCall ==
    /\ dm.pc = "call"
    /\ dm' = [dm EXCEPT !.pc = "returned", !.D = Dmat(dm.n, dm.k)]
    /\ UNCHANGED <<cv, opt, bt>>

DmatNext == DmatCall

DmatSpec == DmatInit /\ [][DmatNext]_vars

RECURSIVE Binomial(_, _)
Binomial(k, j) ==
    IF j = 0 \/ j = k THEN 1 ELSE Binomial(k - 1, j - 1) + Binomial(k - 1, j)

Sign(j) == IF j % 2 = 0 THEN 1 ELSE -1

\* C8: Dmat(n, k), 0 <= k < n, is the (n - k) x n matrix whose row i holds
\* (-1)^j * C(k, j) at column i + j (j = 0..k) and 0 elsewhere: the identity for
\* k = 0, the first difference (+1, -1) for k = 1, the k-th order finite
\* difference for k > 1.
C8_DmatIsFiniteDifference ==
    dm.pc = "returned" =>
        /\ Len(dm.D) = dm.n - dm.k
        /\ \A i \in 1..(dm.n - dm.k) :
              /\ Len(dm.D[i]) = dm.n
              /\ \A c \in 1..dm.n :
                    dm.D[i][c] =
                        IF c >= i /\ c - i <= dm.k
                        THEN Sign(c - i) * Binomial(dm.k, c - i)
                        ELSE 0

C8_Witness == dm.pc = "returned" /\ dm.k > 1 /\ dm.n - dm.k > 1

(***************************************************************************)
(* SymPDcovmatrix(A, tol)                                                  *)
(***************************************************************************)
\* numpy adds an (m x n) and an (n x m) array only when the shapes broadcast:
\* each pair of dimensions is equal or holds a 1
Broadcasts(m, n) == m = n \/ m = 1 \/ n = 1

\* (A + A.transpose()) / 2 under numpy broadcasting: a dimension of length 1 is
\* repeated.  The entries of A are even, so the halves are exact.
Symmetrize(A) ==
    LET m == NRows(A)
        n == NCols(A)
        r == Max2(m, n)
        a(i, j) == A[IF m = 1 THEN 1 ELSE i][IF n = 1 THEN 1 ELSE j]
    IN  [i \in 1..r |-> [j \in 1..r |-> (a(i, j) + a(j, i)) \div 2]]

\* The whole call.  The eigen-decomposition is not computed: the returned
\* matrix and e_min are identified by the symmetrized matrix and the floor tol
\* they are computed from.
SymPDcovmatrix(A, tol) ==
    LET m == NRows(A)
        n == NCols(A)
        printed == (n # m)
        tolUsed == IF tol = "None" THEN "1e-04" ELSE tol
    IN  IF ~Broadcasts(m, n)
        THEN [outcome |-> "raised", printed |-> printed]
        ELSE [outcome |-> "returned", printed |-> printed,
              A |-> [floored |-> Symmetrize(A), tol |-> tolUsed],
              e_min |-> [minEigOf |-> Symmetrize(A), tol |-> tolUsed]]

Entries == {0, 2}

Tols == {"None", "1e-08"}

CovInit ==
    /\ \E m \in 1..MaxDim : \E n \in 1..MaxDim :
       \E A \in [1..m -> [1..n -> Entries]] : \E tol \in Tols :
          cv = [pc |-> "call", A |-> A, tol |-> tol, res |-> <<>>]
    /\ dm = NoCall
    /\ opt = NoCall
    /\ bt = NoCall

CovCall ==
    /\ cv.pc = "call"
    /\ cv' = [cv EXCEPT !.pc = "done", !.res = SymPDcovmatrix(cv.A, cv.tol)]
    /\ UNCHANGED <<dm, opt, bt>>

CovNext == CovCall

CovSpec == CovInit /\ [][CovNext]_vars

\* C10: SymPDcovmatrix on a non-square input (m # n, 1 x n and n x 1 included)
\* ends in an error reported to the caller and never returns a conditioned
\* matrix and e_min.
C10_NonSquareIsError ==
    (cv.pc = "done" /\ NRows(cv.A) # NCols(cv.A)) => cv.res.outcome = "raised"

(***************************************************************************)
(* The quadratic programs of the two optimizers:                           *)
(*     minimize 1/2 x'Px + q'x  subject to  l <= Ax <= u                   *)
(* A lower bound is finite or -np.inf.                                     *)
(***************************************************************************)
Fin(v) == [inf |-> FALSE, v |-> v]

MinusInf == [inf |-> TRUE, v |-> 0]

FinVec(s) == [i \in 1..Len(s) |-> Fin(s[i])]

\* `if assetsOrder:` is false for None and for an empty list, both held as <<>>
HasOrder(assetsOrder) == assetsOrder # <<>>

\* temp = sigMat[:, assetsOrder]; sigMat = temp[assetsOrder, :]
ReorderMat(sigMat, assetsOrder) ==
    IF HasOrder(assetsOrder)
    THEN [i \in 1..Len(assetsOrder) |->
            [j \in 1..Len(assetsOrder) |-> sigMat[assetsOrder[i]][assetsOrder[j]]]]
    ELSE sigMat

\* meanVec = meanVec[assetsOrder]
ReorderVec(meanVec, assetsOrder) ==
    IF HasOrder(assetsOrder)
    THEN [i \in 1..Len(assetsOrder) |-> meanVec[assetsOrder[i]]]
    ELSE meanVec

\* sigMatShrinkage (when lambda_l2 is non-zero) followed by SymPDcovmatrix.  The
\* eigen-decomposition is not computed: the conditioned matrix and e_min are
\* identified by the matrix and the shrinkage they are computed from.
Conditioned(sigMat, lambda_l2) ==
    [sigMat |-> sigMat, shrinkage |-> lambda_l2, tol |-> "1e-04"]

SeqMin(s) == CHOOSE x \in {s[i] : i \in 1..Len(s)} : \A i \in 1..Len(s) : x <= s[i]

SeqMax(s) == CHOOSE x \in {s[i] : i \in 1..Len(s)} : \A i \in 1..Len(s) : x >= s[i]

\* dailyRetTarget = 100 * ((retTarget / 100 + 1) ** (1 / 250) - 1), rounded to
\* 0.001 percent, for the annual targets (percent) of the model
RetTargets == {-10, 0, 30, 100}

DailyRetTarget(retTarget) ==
    CASE retTarget = -10 -> -42
      [] retTarget = 0 -> 0
      [] retTarget = 30 -> 105
      [] retTarget = 100 -> 278

\* A clamp that forgets the upper end of the range.
ClampTargetLowOnly(dailyRetTarget, meanVec) ==
    Max2(SeqMin(meanVec), dailyRetTarget)

\* lines 337-342: the target is pulled into [min(meanVec), max(meanVec)]
ClampTarget(dailyRetTarget, meanVec) ==
    LET minEret == SeqMin(meanVec)
        maxEret == SeqMax(meanVec)
    IN  IF dailyRetTarget < minEret \/ maxEret < dailyRetTarget
        THEN LET part1 == minEret
                 part2 == Min2(maxEret, dailyRetTarget)
             IN  Max2(part1, part2)
        ELSE dailyRetTarget

\* A long-only tail whose box forgets the cap maxAlloc.
LongOnlyTailNoCap(d, maxAlloc) ==
    [A |-> VStack(<<Const(d, 1)>>, Eye(d, d)),
     l |-> FinVec(<<One(d)>> \o Const(d, 0)),
     u |-> <<One(d)>> \o Const(d, One(d))]

\* rows, lower and upper bounds shared by the long-only programs:
\* Aeq (budget) and np.eye(d) (box)
LongOnlyTail(d, maxAlloc) ==
    [A |-> VStack(<<Const(d, 1)>>, Eye(d, d)),
     l |-> FinVec(<<One(d)>> \o Const(d, 0)),
     u |-> <<One(d)>> \o Const(d, maxAlloc)]

\* A = np.hstack([np.zeros(d), np.ones(d), np.zeros(d)])
GrossRow(d) == Const(d, 0) \o Const(d, 1) \o Const(d, 0)

\* Grenze = min(abs(longShort), maxAlloc)
Grenze(longShort, maxAlloc) == Min2(Abs(longShort), maxAlloc)

\* rows, lower and upper bounds shared by the long-short programs over
\* x = (w, u, v): Aeq (w - u + v = 0, sum(w) = 1) and np.eye(3d)
LongShortTail(d, longShort, maxAlloc) ==
    [A |-> VStack(VStack(HStackM(HStackM(Eye(d, d), Neg(Eye(d, d))), Eye(d, d)),
                         <<Const(d, 1) \o Const(d, 0) \o Const(d, 0)>>),
                  Eye(3 * d, 3 * d)),
     l |-> FinVec(Const(d, 0) \o <<One(d)>>
                  \o Const(d, -Grenze(longShort, maxAlloc)) \o Const(2 * d, 0)),
     u |-> Const(d, 0) \o <<One(d)>> \o Const(3 * d, maxAlloc)]

\* minimumVariancePortfolio, lines 189-281: the arguments of prob.setup
MinVarQP(sigMat0, longShort, maxAlloc, lambda_l1, lambda_l2, assetsOrder) ==
    LET d == Len(sigMat0)
        sigMat == Conditioned(ReorderMat(sigMat0, assetsOrder), lambda_l2)
    IN  IF longShort = 0
        THEN LET tail == LongOnlyTail(d, maxAlloc)
                 head == IF HasOrder(assetsOrder)
                         THEN [A |-> Neg(FirstDifference(d)),
                               l |-> FinVec(Const(d - 1, -One(d))),
                               u |-> Const(d - 1, 0)]
                         ELSE [A |-> <<>>, l |-> <<>>, u |-> <<>>]
                 meanVec == IF lambda_l1 # 0 THEN Const(d, -lambda_l1) ELSE Const(d, 0)
             IN  [P |-> [block |-> "w", sigMat |-> sigMat],
                  q |-> NegVec(meanVec),
                  A |-> VStack(head.A, tail.A),
                  l |-> head.l \o tail.l,
                  u |-> head.u \o tail.u,
                  nvars |-> d]
        ELSE LET tail == LongShortTail(d, longShort, maxAlloc)
                 G == Grenze(longShort, maxAlloc)
                 head == IF HasOrder(assetsOrder)
                         THEN [A |-> VStack(<<GrossRow(d)>>,
                                            HStackM(Neg(FirstDifference(d)),
                                                    Zeros(d - 1, 2 * d))),
                               l |-> FinVec(<<0>> \o Const(d - 1, -(One(d) + 2 * G))),
                               u |-> <<One(d) + Abs(longShort)>> \o Const(d - 1, 0)]
                         ELSE [A |-> <<GrossRow(d)>>,
                               l |-> FinVec(<<0>>),
                               u |-> <<One(d) + Abs(longShort)>>]
                 meanvec3d == IF lambda_l1 # 0
                              THEN Const(d, 0) \o Const(2 * d, -lambda_l1)
                              ELSE Const(d, 0) \o Const(2 * d, 0)
             IN  [P |-> [block |-> "wuv", sigMat |-> sigMat],
                  q |-> NegVec(meanvec3d),
                  A |-> VStack(head.A, tail.A),
                  l |-> head.l \o tail.l,
                  u |-> head.u \o tail.u,
                  nvars |-> 3 * d]

\* meanVariancePortfolioReturnsTarget, lines 344-440: the arguments of
\* prob.setup, given the clamped per-period target
MeanVarQP(meanVec0, sigMat0, dailyRetTarget, longShort, maxAlloc, lambda_l1, lambda_l2, assetsOrder) ==
    LET d == Len(sigMat0)
        sigMat == Conditioned(ReorderMat(sigMat0, assetsOrder), lambda_l2)
        meanVec == ReorderVec(meanVec0, assetsOrder)
        tau == dailyRetTarget
    IN  IF longShort = 0
        THEN LET tail == LongOnlyTail(d, maxAlloc)
                 head == IF HasOrder(assetsOrder)
                         THEN [A |-> VStack(<<NegVec(meanVec)>>, Neg(Dmat(d, 1))),
                               l |-> <<MinusInf>> \o FinVec(Const(d - 1, -One(d))),
                               u |-> <<-tau * One(d)>> \o Const(d - 1, 0)]
                         ELSE [A |-> <<NegVec(meanVec)>>,
                               l |-> <<MinusInf>>,
                               u |-> <<-tau * One(d)>>]
                 meanVecQ == IF lambda_l1 # 0
                             THEN [i \in 1..d |-> -lambda_l1 * meanVec[i]]
                             ELSE Const(d, 0)
             IN  [P |-> [block |-> "w", sigMat |-> sigMat],
                  q |-> NegVec(meanVecQ),
                  A |-> VStack(head.A, tail.A),
                  l |-> head.l \o tail.l,
                  u |-> head.u \o tail.u,
                  nvars |-> d]
        ELSE LET tail == LongShortTail(d, longShort, maxAlloc)
                 G == Grenze(longShort, maxAlloc)
                 retRow == NegVec(meanVec) \o Const(2 * d, 0)
                 head == IF HasOrder(assetsOrder)
                         THEN [A |-> VStack(<<GrossRow(d), retRow>>,
                                            HStackM(Neg(Dmat(d, 1)),
                                                    Zeros(d - 1, 2 * d))),
                               l |-> <<Fin(0), MinusInf>>
                                     \o FinVec(Const(d - 1, -(One(d) + 2 * G))),
                               u |-> <<One(d) + Abs(longShort), -tau * One(d)>>
                                     \o Const(d - 1, 0)]
                         ELSE [A |-> <<GrossRow(d), retRow>>,
                               l |-> <<Fin(0), MinusInf>>,
                               u |-> <<One(d) + Abs(longShort), -tau * One(d)>>]
                 meanvec3d == IF lambda_l1 # 0
                              THEN Const(d, 0) \o Const(2 * d, -lambda_l1)
                              ELSE Const(d, 0) \o Const(2 * d, 0)
             IN  [P |-> [block |-> "wuv", sigMat |-> sigMat],
                  q |-> NegVec(meanvec3d),
                  A |-> VStack(head.A, tail.A),
                  l |-> head.l \o tail.l,
                  u |-> head.u \o tail.u,
                  nvars |-> 3 * d]

(***************************************************************************)
(* The solver (osqp) and the post-processing of its result.                *)
(***************************************************************************)
\* l <= Ax <= u
Feasible(qp, x) ==
    \A r \in 1..Len(qp.A) :
        LET Ax_r == Dot(qp.A[r], x)
        IN  /\ (qp.l[r].inf \/ qp.l[r].v <= Ax_r)
            /\ Ax_r <= qp.u[r]

\* The vectors the model lets the solver return for a d-asset problem: weights
\* on the whole grid 0..1 for x = w, and for x = (w, u, v) a long part u and a
\* short part v on coarser grids and w = u - v.
UGrid(d) == (0..3) \cup {One(d)}

VGrid(d) == {0, 1}

SolverGrid(d, nvars) ==
    IF nvars = d
    THEN [1..d -> 0..One(d)]
    ELSE {[i \in 1..d |-> uu[i] - vv[i]] \o uu \o vv :
             uu \in [1..d -> UGrid(d)], vv \in [1..d -> VGrid(d)]}

\* res.x of prob.solve(): a vector that satisfies the constraints, or, when the
\* solve fails (always so for an infeasible problem), a vector without
\* information, held as the zero vector
SolverOutputs(d, qp) ==
    {x \in SolverGrid(d, qp.nvars) : Feasible(qp, x)} \cup {Const(qp.nvars, 0)}

\* numpy's x.all(): every entry is non-zero
AllNonZero(x) == \A i \in 1..Len(x) : x[i] # 0

\* `if not w_opt.all():` (lines 234, 285, 391, 444)
UseFallback(x) == ~AllNonZero(x)

\* np.ones(d) / d
EqualWeights(d) == Const(d, One(d) \div d)

\* w_opt = res.x or wuv_opt[:d], or the equal weights
WeightsOf(d, longShort, x) ==
    IF UseFallback(x) THEN EqualWeights(d)
    ELSE IF longShort = 0 THEN x ELSE SubSeq(x, 1, d)

\* `if assetsOrder: w_opt = w_opt[assetsOrder]` (lines 292-293, 450-451)
PermuteBack(w_opt, assetsOrder) ==
    IF HasOrder(assetsOrder)
    THEN [j \in 1..Len(assetsOrder) |-> w_opt[assetsOrder[j]]]
    ELSE w_opt

MinVarName == "minimumVariancePortfolio"

MeanVarName == "meanVariancePortfolioReturnsTarget"

\* The program an optimizer call hands to the solver.  c holds the call's
\* arguments under the parameter names of the source.
QPOf(c) ==
    IF c.fn = MinVarName
    THEN MinVarQP(c.sigMat, c.longShort, c.maxAlloc, c.lambda_l1, c.lambda_l2,
                  c.assetsOrder)
    ELSE MeanVarQP(c.meanVec, c.sigMat,
                   ClampTarget(DailyRetTarget(c.retTarget), c.meanVec),
                   c.longShort, c.maxAlloc, c.lambda_l1, c.lambda_l2,
                   c.assetsOrder)

\* Every outcome of one optimizer call: the program solved, the solver's
\* vector, the weights before and after the final reordering.
OptimizerResults(c) ==
    LET d == Len(c.sigMat)
        qp == QPOf(c)
    IN  {[qp |-> qp, x |-> x,
          w_solved |-> WeightsOf(d, c.longShort, x),
          w_opt |-> PermuteBack(WeightsOf(d, c.longShort, x), c.assetsOrder)] :
            x \in SolverOutputs(d, qp)}

\* sample covariance of assets 1..d, each entry identified by its pair of assets
SigMatOf(d) == [i \in 1..d |-> [j \in 1..d |-> <<Min2(i, j), Max2(i, j)>>]]

\* None, the identity and a rotation (a swap when d = 2)
Orders(d) == {<<>>, [i \in 1..d |-> i], [i \in 1..d |-> (i % d) + 1]}

MeanVecs(d) ==
    {[i \in 1..d |-> IF i = 1 THEN 105 ELSE 0], [i \in 1..d |-> 38 * i]}

\* maxAlloc in (0, 1]: 1/(2d), 1/2 and 1
MaxAllocs(d) == {1, d, One(d)}

\* longShort: 0, -1/2 and 1
LongShorts(d) == {0, -d, One(d)}

\* (lambda_l1, lambda_l2)
Lambdas == {<<0, 0>>, <<2, 1>>}

OptCalls ==
    UNION {
      {[fn |-> fn, sigMat |-> SigMatOf(d), meanVec |-> mv, retTarget |-> rt,
        longShort |-> ls, maxAlloc |-> ma, lambda_l1 |-> lam[1],
        lambda_l2 |-> lam[2], assetsOrder |-> ord] :
          fn \in {MinVarName, MeanVarName}, mv \in MeanVecs(d), rt \in RetTargets,
          ls \in LongShorts(d), ma \in MaxAllocs(d), lam \in Lambdas,
          ord \in Orders(d)} : d \in 1..MaxD}

\* minimumVariancePortfolio takes no meanVec and no retTarget: one value each
OptInit ==
    /\ \E c \in OptCalls :
          /\ c.fn = MinVarName =>
                /\ c.retTarget = 0
                /\ c.meanVec = [i \in 1..Len(c.sigMat) |-> 38 * i]
          /\ opt = [pc |-> "call", args |-> c, res |-> <<>>]
    /\ dm = NoCall
    /\ cv = NoCall
    /\ bt = NoCall

OptCall ==
    /\ opt.pc = "call"
    /\ \E r \in OptimizerResults(opt.args) :
          opt' = [opt EXCEPT !.pc = "returned", !.res = r]
    /\ UNCHANGED <<dm, cv, bt>>

OptNext == OptCall

OptSpec == OptInit /\ [][OptNext]_vars

(***************************************************************************)
(* Properties of the optimizers.                                           *)
(***************************************************************************)
OptReturned == opt.pc = "returned"

OptD == Len(opt.args.sigMat)

InBox(w, cap) == \A i \in 1..Len(w) : 0 <= w[i] /\ w[i] <= cap

\* C4 as stated: for longShort = 0 every returned weight vector sums to 1 and
\* has every entry in [0, maxAlloc], for every d >= 1 and every maxAlloc in
\* (0, 1].
C4_LongOnlyInBoxAnyCap ==
    (OptReturned /\ opt.args.longShort = 0) =>
        /\ SumSeq(opt.res.w_opt) = One(OptD)
        /\ InBox(opt.res.w_opt, opt.args.maxAlloc)

\* C4 amended: for longShort = 0 and a cap that admits a portfolio at all
\* (d * maxAlloc >= 1), every returned weight vector, the solver's or the
\* equal-weight fallback, sums to 1 and has every entry in [0, maxAlloc].
C4_LongOnlyInBoxFeasibleCap ==
    (OptReturned /\ opt.args.longShort = 0
        /\ OptD * opt.args.maxAlloc >= One(OptD)) =>
        /\ SumSeq(opt.res.w_opt) = One(OptD)
        /\ InBox(opt.res.w_opt, opt.args.maxAlloc)

C4_Witness ==
    /\ OptReturned /\ opt.args.longShort = 0
    /\ OptD * opt.args.maxAlloc >= One(OptD)
    /\ opt.args.maxAlloc < One(OptD)
    /\ ~UseFallback(opt.res.x)
    /\ opt.res.w_opt # EqualWeights(OptD)

\* C5: for longShort # 0 every x = (w, u, v) with l <= Ax <= u satisfies
\* sum(u) + sum(v) <= 1 + |longShort|.
C5_GrossExposureCap ==
    (OptReturned /\ opt.args.longShort # 0 /\ Feasible(opt.res.qp, opt.res.x)) =>
        SumSeq(SubSeq(opt.res.x, OptD + 1, 3 * OptD))
            <= One(OptD) + Abs(opt.args.longShort)

\* C6: with assetsOrder = p the weight the solve gives to reordered position j
\* is returned at the original asset p[j]: r[p[j]] = x[j] for every j.
C6_WeightsBackInOriginalOrder ==
    (OptReturned /\ HasOrder(opt.args.assetsOrder)) =>
        \A j \in 1..OptD :
            opt.res.w_opt[opt.args.assetsOrder[j]] = opt.res.w_solved[j]

\* C7: the weights are the equal weights when the solver's vector is all-zero;
\* a vector with at least one non-zero entry is returned (its w block)
\* unchanged.
C7_FallbackOnlyOnAllZero ==
    OptReturned =>
        opt.res.w_solved =
            IF \A i \in 1..Len(opt.res.x) : opt.res.x[i] = 0
            THEN EqualWeights(OptD)
            ELSE SubSeq(opt.res.x, 1, OptD)

\* the row of the return constraint -meanVec . w <= -dailyRetTarget
ReturnRow == IF opt.args.longShort = 0 THEN 1 ELSE 2

\* C9: the per-period target of the return constraint lies in
\* [min(meanVec), max(meanVec)]: a target below the range becomes the minimum,
\* one above it the maximum, one in range is unchanged; and a request above
\* the maximum hands the solver the program of a request whose per-period
\* target is the maximum.
C9_TargetClamped ==
    (OptReturned /\ opt.args.fn = MeanVarName) =>
        LET raw == DailyRetTarget(opt.args.retTarget)
            lo == SeqMin(opt.args.meanVec)
            hi == SeqMax(opt.args.meanVec)
            a == opt.args
        IN  /\ -opt.res.qp.u[ReturnRow] =
                  One(OptD) * (IF raw < lo THEN lo ELSE IF raw > hi THEN hi ELSE raw)
            /\ raw > hi =>
                  opt.res.qp =
                      MeanVarQP(a.meanVec, a.sigMat, ClampTarget(hi, a.meanVec),
                                a.longShort, a.maxAlloc, a.lambda_l1, a.lambda_l2,
                                a.assetsOrder)

C9_Witness ==
    /\ OptReturned /\ opt.args.fn = MeanVarName
    /\ DailyRetTarget(opt.args.retTarget) > SeqMax(opt.args.meanVec)
    /\ SeqMin(opt.args.meanVec) < SeqMax(opt.args.meanVec)
    /\ Feasible(opt.res.qp, opt.res.x)

(***************************************************************************)
(* rollingwindow_backtest                                                  *)
(*                                                                         *)
(* Dates (rows of the pivoted price table df1) are 0..n, log-return        *)
(* periods (rows of df_logret) 0..n-1, as in the source; assets (columns   *)
(* of df1) are 1..NAssets.  miss[a] is the set of dates asset a has no     *)
(* price for.  maxAlloc and longShort of the backtest are held in halves   *)
(* (0, 1, 2 for 0, 1/2, 1).                                                *)
(***************************************************************************)
\* number of assets of the universe
NAssets == 3

Assets == 1..NAssets

\* a backtest's parameter in halves, in the weight unit of a d-asset problem
ToUnits(d, halves) == halves * d

\* df_logret row t is log(price[t + 1]) - log(price[t]): NaN when either is missing
LogretPresent(miss, a, t) == t \notin miss[a] /\ (t + 1) \notin miss[a]

\* The columns check_missing keeps: the assets with no missing observation in
\* the window, in the order of the universe.
RECURSIVE KeptFrom(_, _, _)
KeptFrom(miss, periods, a) ==
    IF a > NAssets THEN <<>>
    ELSE (IF \A k \in 1..Len(periods) : LogretPresent(miss, a, periods[k])
          THEN <<a>> ELSE <<>>) \o KeptFrom(miss, periods, a + 1)

LogretRow(t) == [kind |-> "logret", t |-> t]

FlagRow == [kind |-> "missing_flag", t |-> 0]

\* check_missing: the window without the assets that miss an observation, and
\* with the row "missing_flag" the function adds (line 478) still in it
check_missing(miss, periods) ==
    [columns |-> KeptFrom(miss, periods, 1),
     rows |-> [k \in 1..Len(periods) |-> LogretRow(periods[k])] \o <<FlagRow>>]

\* A scatter that never advances k.
RECURSIVE ScatterStuckFrom(_, _, _, _)
ScatterStuckFrom(sample_stocks, w_sample, j, k) ==
    IF j > NAssets THEN <<>>
    ELSE IF \E c \in 1..Len(sample_stocks) : sample_stocks[c] = j
         THEN <<w_sample[k]>> \o ScatterStuckFrom(sample_stocks, w_sample, j + 1, k)
         ELSE <<0>> \o ScatterStuckFrom(sample_stocks, w_sample, j + 1, k)

\* lines 590-593, from column j on with k weights already placed:
\* w_opt[j] = w_sample[k]; k += 1 for every column of df1 in sample_stocks
RECURSIVE ScatterFrom(_, _, _, _)
ScatterFrom(sample_stocks, w_sample, j, k) ==
    IF j > NAssets THEN <<>>
    ELSE IF \E c \in 1..Len(sample_stocks) : sample_stocks[c] = j
         THEN <<w_sample[k]>> \o ScatterFrom(sample_stocks, w_sample, j + 1, k + 1)
         ELSE <<0>> \o ScatterFrom(sample_stocks, w_sample, j + 1, k)

\* lines 567-585: the positional call.  The optimizers' parameters are
\* (..., longShort, maxAlloc, lambda_l1, lambda_l2); the backtest passes
\* (..., float(maxAlloc), float(longShort), float(lambda_l1), float(lambda_l2)).
\* The sample statistics are not computed: sigMat is identified by its assets,
\* meanVec is one fixed vector.
OptimizerCall(b, s) ==
    [fn |-> b.optimizerName, sigMat |-> SigMatOf(s),
     meanVec |-> [k \in 1..s |-> 38 * k], retTarget |-> b.retTarget,
     longShort |-> ToUnits(s, b.maxAlloc), maxAlloc |-> ToUnits(s, b.longShort),
     lambda_l1 |-> b.lambda_l1, lambda_l2 |-> b.lambda_l2, assetsOrder |-> <<>>]

\* (maxAlloc, longShort) in halves: the defaults (1, 0), then (1/2, 1), (1, 1)
AllocAndShort == {<<2, 0>>, <<1, 2>>, <<2, 2>>}

\* every optimizer call a backtest of the model can make
BacktestCalls ==
    {OptimizerCall([optimizerName |-> fn, retTarget |-> 0, maxAlloc |-> as[1],
                    longShort |-> as[2], lambda_l1 |-> lam[1],
                    lambda_l2 |-> lam[2]], s) :
        fn \in {MinVarName, MeanVarName}, as \in AllocAndShort,
        lam \in Lambdas, s \in 2..NAssets}

\* w_sample: the weights each of these calls can return
SampleWeights ==
    [c \in BacktestCalls |-> {r.w_opt : r \in OptimizerResults(c)}]

\* np.nan_to_num(logret[t], nan=0): the assets whose log-return of period t
\* counts; a missing one is 0, and so is its simple return 100 * (e^0 - 1)
Counted(miss, t) == {a \in Assets : LogretPresent(miss, a, t)}

\* Realized returns listed from the last period back to the first.
RealizedBackwards(miss, w_opt, from, to) ==
    [k \in 1..(to - from) |->
        [t |-> to - k, w |-> w_opt, counted |-> Counted(miss, to - k)]]

\* np.dot(w_opt, simple_returns.transpose()) for logret[from : to]: one
\* realized return per period, identified by the period, the returns that
\* count and the weights
Realized(miss, w_opt, from, to) ==
    [k \in 1..(to - from) |->
        [t |-> from + k - 1, w |-> w_opt,
         counted |-> Counted(miss, from + k - 1)]]

RNone == [t |-> -1, w |-> <<>>]

\* lines 595-612 and, when the loop ends, 613-614: w_all and R take the
\* weights of this rebalance, i advances, and the function returns after the
\* last rebalance
Accumulate(b, w_opt, last) ==
    LET i == b.i
        d == b.rebalance_time
        w_all == IF b.w_all.ndim = 0 THEN [ndim |-> 1, rows |-> <<w_opt>>]
                 ELSE [ndim |-> 2, rows |-> Append(b.w_all.rows, w_opt)]
        \* np.hstack([None, a]) is an object array that starts with None
        R == IF i + d < b.n
             THEN b.R \o Realized(b.miss, w_opt, i, i + d)
             ELSE (IF b.R_None THEN <<RNone>> ELSE b.R) \o Realized(b.miss, w_opt, i, b.n)
        done == i + d >= b.n
    IN  [b EXCEPT !.w_all = w_all, !.R = R, !.R_None = FALSE, !.i = i + d,
                  !.last = last,
                  !.pc = IF done THEN "returned" ELSE "loop",
                  !.rownames = IF done
                               THEN [k \in 1..(b.n - b.window_size) |-> b.window_size + k]
                               ELSE <<>>]

WindowPeriods(b) == [k \in 1..b.window_size |-> b.i - b.window_size + k - 1]

\* logret_window = window.iloc[: n - 1]
SampleRows(b, window) == SubSeq(window.rows, 1, Min2(b.n - 1, Len(window.rows)))

Raised(b) == [b EXCEPT !.pc = "raised"]

\* One pass of the loop `for i in range(start, n, d)` with a known objective.
RebalanceOptimize ==
    /\ bt.pc = "loop"
    /\ bt.optimizerName \in {MinVarName, MeanVarName}
    /\ LET window == check_missing(bt.miss, WindowPeriods(bt))
           sample_stocks == window.columns
           s == Len(sample_stocks)
       IN  /\ s >= 2
           /\ Len(SampleRows(bt, window)) >= 2
           /\ \E w_sample \in SampleWeights[OptimizerCall(bt, s)] :
                 LET w_opt == ScatterFrom(sample_stocks, w_sample, 1, 1)
                 IN  bt' = Accumulate(bt, w_opt,
                                      [called |-> TRUE, placed |-> TRUE,
                                       call |-> OptimizerCall(bt, s),
                                       sample_stocks |-> sample_stocks,
                                       rows |-> SampleRows(bt, window),
                                       w_sample |-> w_sample, w_opt |-> w_opt])
    /\ UNCHANGED <<dm, cv, opt>>

\* The optimizers raise on the sample: np.cov of one asset is 0-dimensional
\* (sigMat.shape[0]: IndexError), of no asset empty (min() of an empty
\* sequence: ValueError), of a single row NaN (LA.eig: LinAlgError).
RebalanceRaises ==
    /\ bt.pc = "loop"
    /\ bt.optimizerName \in {MinVarName, MeanVarName}
    /\ LET window == check_missing(bt.miss, WindowPeriods(bt))
       IN  Len(window.columns) < 2 \/ Len(SampleRows(bt, window)) < 2
    /\ bt' = Raised(bt)
    /\ UNCHANGED <<dm, cv, opt>>

\* optimizerName == "test": `import test; test.displayText()` raises
\* (AttributeError).  Any other name: no branch assigns w_sample, and line 592
\* raises NameError as soon as one asset is in sample_stocks; with none the
\* weights stay zero and the loop goes on.
RebalanceUnknown ==
    /\ bt.pc = "loop"
    /\ bt.optimizerName \notin {MinVarName, MeanVarName}
    /\ LET window == check_missing(bt.miss, WindowPeriods(bt))
           sample_stocks == window.columns
       IN  IF bt.optimizerName = "test" \/ Len(sample_stocks) > 0
           THEN bt' = Raised(bt)
           ELSE bt' = Accumulate(bt, Const(NAssets, 0),
                                 [called |-> FALSE, placed |-> TRUE,
                                  call |-> <<>>, sample_stocks |-> sample_stocks,
                                  rows |-> SampleRows(bt, window),
                                  w_sample |-> <<>>, w_opt |-> Const(NAssets, 0)])
    /\ UNCHANGED <<dm, cv, opt>>

OptimizerNames == {MinVarName, MeanVarName, "test", "riskParity"}

\* dates an asset may have no price for
MissSets == {{}, {1}, {2}}

RebalanceTimes == 1..2

\* a date is a row of df1 only if some asset has a price for it
PriceTables(n) ==
    {miss \in [Assets -> MissSets] :
        \A date \in 0..n : \E a \in Assets : date \notin miss[a]}

BtInit ==
    /\ \E name \in OptimizerNames : \E n \in 2..MaxN : \E ws \in 1..(n - 1) :
       \E reb \in RebalanceTimes : \E miss \in PriceTables(n) :
       \E as \in AllocAndShort : \E lam \in Lambdas :
          /\ bt = [pc |-> "loop", optimizerName |-> name, miss |-> miss, n |-> n,
                   window_size |-> ws, rebalance_time |-> reb,
                   maxAlloc |-> as[1], longShort |-> as[2],
                   lambda_l1 |-> lam[1], lambda_l2 |-> lam[2], retTarget |-> 0,
                   i |-> ws, R_None |-> TRUE, R |-> <<>>,
                   w_all |-> [ndim |-> 0, rows |-> <<>>],
                   last |-> [called |-> FALSE, placed |-> FALSE],
                   rownames |-> <<>>]
    /\ dm = NoCall
    /\ cv = NoCall
    /\ opt = NoCall

BtNext == RebalanceOptimize \/ RebalanceRaises \/ RebalanceUnknown

BtSpec == BtInit /\ [][BtNext]_vars

(***************************************************************************)
(* Properties of the backtest.                                             *)
(***************************************************************************)
\* C1: the returned realized-return series R has exactly n - window_size
\* entries, as many as the returned date index rownames, also when the first
\* rebalance is the only one.
C1_ReturnsMatchDates ==
    bt.pc = "returned" =>
        /\ Len(bt.R) = bt.n - bt.window_size
        /\ Len(bt.R) = Len(bt.rownames)

\* C2: at every rebalance the optimizer's longShort is the backtest's
\* longShort and its maxAlloc the backtest's maxAlloc (likewise lambda_l1 and
\* lambda_l2).
C2_ParametersInTheirRoles ==
    bt.last.called =>
        LET s == Len(bt.last.sample_stocks)
        IN  /\ bt.last.call.longShort = ToUnits(s, bt.longShort)
            /\ bt.last.call.maxAlloc = ToUnits(s, bt.maxAlloc)
            /\ bt.last.call.lambda_l1 = bt.lambda_l1
            /\ bt.last.call.lambda_l2 = bt.lambda_l2

\* C3: at every rebalance the full-universe weight vector has one entry per
\* asset of the universe, 0 for every asset excluded from the window, and for
\* every surviving asset the optimizer's weight for that same asset.
C3_ScatterByIdentity ==
    bt.last.placed =>
        LET kept == bt.last.sample_stocks
        IN  /\ Len(bt.last.w_opt) = NAssets
            /\ \A a \in Assets :
                  (\A c \in 1..Len(kept) : kept[c] # a) => bt.last.w_opt[a] = 0
            /\ \A c \in 1..Len(kept) : bt.last.w_opt[kept[c]] = bt.last.w_sample[c]

C3_Witness ==
    /\ bt.last.placed /\ bt.last.called
    /\ bt.last.sample_stocks = <<2, 3>>
    /\ bt.last.w_sample[1] # bt.last.w_sample[2]
    /\ Len(bt.w_all.rows) >= 2

\* C11: a backtest whose objective name is none of the two known ones ends in
\* an error, whatever the data (also when no asset survives a window), and
\* never returns realized returns or weights.
C11_UnknownObjectiveIsError ==
    bt.optimizerName \notin {MinVarName, MeanVarName} => bt.pc # "returned"

\* the rebalance points of a backtest: `range(start, n, d)`
RebalancePoints(b) ==
    {i \in b.window_size..(b.n - 1) : (i - b.window_size) % b.rebalance_time = 0}

\* C12: the returned weight history is a matrix with exactly one row per
\* rebalance point, each row of full-universe width, and the returned dates
\* are as many as the rows, date k being the date of rebalance k (the label
\* of period window_size + (k - 1) * rebalance_time), for every
\* rebalance_time and also with a single rebalance point.
C12_OneRowAndDatePerRebalance ==
    bt.pc = "returned" =>
        /\ bt.w_all.ndim = 2
        /\ Len(bt.w_all.rows) = Cardinality(RebalancePoints(bt))
        /\ \A k \in 1..Len(bt.w_all.rows) : Len(bt.w_all.rows[k]) = NAssets
        /\ Len(bt.rownames) = Len(bt.w_all.rows)
        /\ \A k \in 1..Len(bt.rownames) :
              bt.rownames[k] = bt.window_size + (k - 1) * bt.rebalance_time + 1

\* the rebalance index of the pass of the loop that ran last
LastIndex == bt.i - bt.rebalance_time

\* C13: at rebalance index i the sample handed to the optimizer is exactly the
\* window_size rows of log-returns of periods i - window_size .. i - 1, over
\* the assets with no missing observation in those rows; no other row (no
\* row added by check_missing) is part of it.
C13_SampleIsTheWindow ==
    bt.last.called =>
        LET i == LastIndex
            kept == bt.last.sample_stocks
        IN  /\ bt.last.rows =
                  [k \in 1..bt.window_size |-> LogretRow(i - bt.window_size + k - 1)]
            /\ \A a \in Assets :
                  (\E c \in 1..Len(kept) : kept[c] = a) <=>
                  (\A t \in (i - bt.window_size)..(i - 1) :
                      LogretPresent(bt.miss, a, t))

\* C14: when window_size + rebalance_time < n, the returned R has exactly one
\* entry for each period t with window_size <= t < n, in increasing order of
\* t, and the entry of t is made of period t's returns (missing ones counted
\* as 0) and the weights solved at the latest rebalance index i <= t, never
\* those of an earlier or a later rebalance.
C14_ReturnsInOrderWithOwnWeights ==
    (bt.pc = "returned" /\ bt.window_size + bt.rebalance_time < bt.n) =>
        /\ Len(bt.R) = bt.n - bt.window_size
        /\ \A j \in 1..Len(bt.R) :
              LET t == bt.window_size + j - 1
                  rebalance == ((t - bt.window_size) \div bt.rebalance_time) + 1
              IN  bt.R[j] = [t |-> t, w |-> bt.w_all.rows[rebalance],
                             counted |-> Counted(bt.miss, t)]

\* a returned backtest of two rebalances with different weights, each held
\* for more than one period, one of them with a missing log-return
C14_Witness ==
    /\ bt.pc = "returned"
    /\ bt.window_size + bt.rebalance_time < bt.n
    /\ bt.rebalance_time = 2
    /\ Len(bt.w_all.rows) = 2
    /\ bt.w_all.rows[1] # bt.w_all.rows[2]
    /\ \E j \in 1..Len(bt.R) : bt.R[j].counted # Assets

(***************************************************************************)
(* The linear term of the long-only minimum-variance program.              *)
(***************************************************************************)
\* C15: for minimumVariancePortfolio with longShort = 0 the linear objective
\* vector q handed to the solver is -lambda_l1 * ones(d) when lambda_l1 # 0
\* and the zero vector when lambda_l1 = 0.
C15_LinearTermMinusLambda ==
    (OptReturned /\ opt.args.fn = MinVarName /\ opt.args.longShort = 0) =>
        opt.res.qp.q = IF opt.args.lambda_l1 # 0
                       THEN Const(OptD, -opt.args.lambda_l1)
                       ELSE Const(OptD, 0)

\* C15, amended: the linear objective vector q handed to the solver is
\* +lambda_l1 * ones(d) when lambda_l1 # 0 (the code builds
\* meanVec = -lambda_l1 * ones(d) and hands over -meanVec) and the zero
\* vector when lambda_l1 = 0.
C15_LinearTermPlusLambda ==
    (OptReturned /\ opt.args.fn = MinVarName /\ opt.args.longShort = 0) =>
        opt.res.qp.q = IF opt.args.lambda_l1 # 0
                       THEN Const(OptD, opt.args.lambda_l1)
                       ELSE Const(OptD, 0)

C15_Witness ==
    /\ OptReturned /\ opt.args.fn = MinVarName /\ opt.args.longShort = 0
    /\ opt.args.lambda_l1 # 0 /\ OptD >= 2
    /\ opt.res.qp.q = Const(OptD, opt.args.lambda_l1)

====
